---------------------------- MODULE Spec2Model ----------------------------
(***************************************************************************)
(* A model of sanic/asgi.py: the adapter between an ASGI server (a scope   *)
(* and the two channel functions receive/send) and Sanic's request and     *)
(* response objects.                                                       *)
(*                                                                         *)
(* The module holds one state machine per sub-protocol of the adapter,     *)
(* all over the same variables:                                            *)
(*   SpecCreate  ASGIApp.create for http, websocket and unknown scopes     *)
(*   SpecLife    ASGIApp.create for a lifespan scope: Lifespan.__call__,   *)
(*               with callers of Lifespan.pre_startup at any moment        *)
(*   SpecBody    ASGIApp.__call__, read_body, stream_body and the handler  *)
(*   SpecResp    ASGIApp.stream_callback and the streaming response        *)
(*   SpecProto   MockProtocol under arbitrary calls from several tasks     *)
(*   SpecWs      MockTransport's WebSocket connection: get and create      *)
(*   SpecConn    a whole http or websocket connection, handler included    *)
(* Text is a sequence of code points, bytes a sequence of 0..255.          *)
(***************************************************************************)
EXTENDS Integers, Sequences, FiniteSets, TLC

VARIABLES
    \* the ASGI channel
    sent,            \* events passed to send(), in order
    delivered,       \* events returned by receive(), in order
    \* ASGIApp.create
    scope,           \* the connection scope
    is_request_stream, \* sanic_app.is_request_stream
    create_pc,       \* position inside ASGIApp.create
    do_stream,       \* instance.do_stream
    ws,              \* instance.ws / transport._websocket_connection
    request,         \* instance.request
    error,           \* the exception that left the running coroutine, or NoError
    \* Lifespan
    listeners,       \* sanic_app.listeners: how many callbacks each event name holds
    life,            \* position inside Lifespan.__call__
    log,             \* what the listeners called by startup() and shutdown() did, in order
    pre,             \* position inside Lifespan.pre_startup
    pre_log,         \* what the listeners called by the latest pre_startup() did, in order
    \* ASGIApp.__call__, read_body, stream_body
    main_pc,         \* position inside ASGIApp.__call__
    body_buf,        \* read_body's local variable body
    sb,              \* the stream_body task: position, chunk being put, more_body
    stream,          \* the queue of request.stream (a StreamBuffer)
    yielded,         \* what the handler has read from request.stream, in order
    handler_call,    \* the arguments handle_request was called with
    \* MockProtocol
    proto,           \* transport._protocol: created, _not_paused, _complete
    drain_st,        \* per task: outside drain(), waiting in it, or woken
    last_call,       \* the last call made on the protocol, and the state it found
    \* ASGIApp.stream_callback
    response,        \* the object the handler passed to stream_callback
    resp,            \* stream_callback's local variable response
    resp_pc,         \* position inside stream_callback
    pushed,          \* the chunks the streaming response has written, in order
    logged,          \* logger.error calls
    \* MockTransport's WebSocket connection
    websocket,       \* transport._websocket_connection, and the objects constructed
    ws_call          \* the last get/create_websocket_connection call and its outcome

chanVars == <<sent, delivered>>
createVars == <<scope, is_request_stream, create_pc, do_stream, ws, request, error>>
lifeVars == <<listeners, life, log>>
preVars == <<pre, pre_log>>
bodyVars == <<main_pc, body_buf, sb, stream, yielded, handler_call>>
protoVars == <<proto, drain_st, last_call>>
respVars == <<response, resp, resp_pc, pushed, logged>>
wsVars == <<websocket, ws_call>>

-----------------------------------------------------------------------------
(* Bounds of the model *)

MaxPathLen == 2
MaxListeners == 2
MaxInbox == 3
BufferSize == 2
NTasks == 2
MaxConns == 2
MaxSent == 3
MaxChunks == 2

-----------------------------------------------------------------------------
(* Text and bytes *)

\* A key that a mapping does not hold (scope.get(key, default) sees it).
Absent == <<-1>>

NoError == "NoError"

RECURSIVE SeqsUpTo(_, _)
SeqsUpTo(S, n) ==
    IF n = 0 THEN {<<>>}
    ELSE LET shorter == SeqsUpTo(S, n - 1)
         IN  shorter \cup {Append(s, x) : s \in {t \in shorter : Len(t) = n - 1}, x \in S}

\* "100-continue", "expect", "?" as code points
s_100_continue == <<49, 48, 48, 45, 99, 111, 110, 116, 105, 110, 117, 101>>
s_expect == <<101, 120, 112, 101, 99, 116>>
b_question == <<63>>

\* str.lower() on one code point (ASCII letters; the others used here have no case)
LowerChar(c) == IF c >= 65 /\ c <= 90 THEN c + 32 ELSE c
Lower(s) == [i \in 1..Len(s) |-> LowerChar(s[i])]

\* bytes.decode("latin-1"): byte n is code point n
decode_latin1(b) == [i \in 1..Len(b) |-> b[i]]

\* str.encode("latin-1"): code point n is byte n, UnicodeEncodeError above 255
EncodeError == <<-2>>
encode_latin1(s) ==
    IF \A i \in 1..Len(s) : s[i] <= 255 THEN [i \in 1..Len(s) |-> s[i]] ELSE EncodeError

\* str.encode("utf-8") of one code point
utf8(c) ==
    IF c < 128 THEN <<c>>
    ELSE IF c < 2048 THEN <<192 + (c \div 64), 128 + (c % 64)>>
    ELSE <<224 + (c \div 4096), 128 + ((c \div 64) % 64), 128 + (c % 64)>>

HexDigit(n) == IF n < 10 THEN 48 + n ELSE 55 + n
PercentByte(b) == <<37, HexDigit(b \div 16), HexDigit(b % 16)>>

RECURSIVE PercentBytes(_)
PercentBytes(bs) ==
    IF bs = <<>> THEN <<>> ELSE PercentByte(Head(bs)) \o PercentBytes(Tail(bs))

\* urllib.parse.quote's characters never quoted, and its default safe="/"
AlwaysSafe == (65..90) \cup (97..122) \cup (48..57) \cup {95, 46, 45, 126}
QuoteSafe == AlwaysSafe \cup {47}

quote_char(c) == IF c \in QuoteSafe THEN <<c>> ELSE PercentBytes(utf8(c))

RECURSIVE encode_utf8(_)
encode_utf8(s) == IF s = <<>> THEN <<>> ELSE utf8(Head(s)) \o encode_utf8(Tail(s))

\* str(n) of a natural number
RECURSIVE Digits(_)
Digits(n) == IF n < 10 THEN <<48 + n>> ELSE Digits(n \div 10) \o <<48 + (n % 10)>>

\* A Python value is a str or a bytes; the two never compare equal
Str(s) == [t |-> "str", v |-> s]
Bytes(b) == [t |-> "bytes", v |-> b]
py_eq(a, b) == a.t = b.t /\ a.v = b.v

RECURSIVE quote(_)
quote(s) == IF s = <<>> THEN <<>> ELSE quote_char(Head(s)) \o quote(Tail(s))

-----------------------------------------------------------------------------
(* MockTransport.get_websocket_connection and create_websocket_connection *)

\* The transport has no _websocket_connection attribute; conn names the cached
\* object, made counts the WebSocketConnection objects constructed so far
NoConn == 0
NoWebsocket == [conn |-> NoConn, made |-> 0]

\* What a call leaves and gives back: the transport, the object returned, the
\* exception raised
WsOutcome(t, result, err) == [transport |-> t, result |-> result, error |-> err]

get_websocket_connection_lazy(t) ==
    IF t.conn = NoConn
    THEN WsOutcome([conn |-> t.made + 1, made |-> t.made + 1], t.made + 1, NoError)
    ELSE WsOutcome(t, t.conn, NoError)

\* return self._websocket_connection, InvalidUsage when the attribute is missing
get_websocket_connection(t) ==
    IF t.conn = NoConn THEN WsOutcome(t, NoConn, "InvalidUsage")
    ELSE WsOutcome(t, t.conn, NoError)

\* self._websocket_connection = WebSocketConnection(send, receive): a new object
\* on every call
create_websocket_connection(t) ==
    WsOutcome([conn |-> t.made + 1, made |-> t.made + 1], t.made + 1, NoError)

WsCall(op, outcome) == [op |-> op, result |-> outcome.result, error |-> outcome.error]
NoWsCall == [op |-> "none", result |-> NoConn, error |-> NoError]

\* transport.get_websocket_connection()
WsGet ==
    /\ websocket' = get_websocket_connection(websocket).transport
    /\ ws_call' = WsCall("get", get_websocket_connection(websocket))

\* transport.create_websocket_connection(send, receive)
WsCreate ==
    /\ websocket.made < MaxConns
    /\ websocket' = create_websocket_connection(websocket).transport
    /\ ws_call' = WsCall("create", create_websocket_connection(websocket))

WsIdle ==
    /\ websocket = NoWebsocket
    /\ ws_call = NoWsCall

-----------------------------------------------------------------------------
(* ASGIApp.create *)

\* An outbound event; the fields an event type does not carry hold defaults.
OutEvent(type) ==
    [type |-> type, status |-> 0, headers |-> <<>>, body |-> <<>>, more_body |-> FALSE]

\* WebSocketConnection.accept sends the handshake acceptance on the channel.
WebsocketAccept == OutEvent("websocket.accept")

\* scope.get("headers", []) decoded pair by pair into the CIMultiDict; a scope
\* without the key is modelled by the empty list the code reads for it
scope_headers(sc) ==
    LET raw == sc.headers
    IN  [i \in 1..Len(raw) |-> <<decode_latin1(raw[i][1]), decode_latin1(raw[i][2])>>]

\* CIMultiDict.get(key): the value of the first pair whose name matches without
\* regard to case, else None
multidict_get(headers, key) ==
    LET hits == {i \in 1..Len(headers) : Lower(headers[i][1]) = Lower(key)}
    IN  IF hits = {} THEN Absent
        ELSE headers[CHOOSE i \in hits : \A j \in hits : i <= j][2]

compute_do_stream(sc) == multidict_get(scope_headers(sc), s_expect) = s_100_continue

url_text(sc) ==
    (IF sc.root_path = Absent THEN <<>> ELSE sc.root_path) \o quote(sc.path)

url_bytes_unquoted(sc) ==
    LET enc == encode_latin1((IF sc.root_path = Absent THEN <<>> ELSE sc.root_path) \o sc.path)
    IN  IF enc = EncodeError THEN EncodeError ELSE enc \o b_question \o sc.query_string

\* url_bytes of create: EncodeError when root_path has no latin-1 encoding
url_bytes(sc) ==
    LET enc == encode_latin1(url_text(sc))
    IN  IF enc = EncodeError THEN EncodeError ELSE enc \o b_question \o sc.query_string

create_version(sc) == IF sc.type = "http" THEN sc.http_version ELSE "1.1"

create_method(sc) == IF sc.type = "http" THEN sc.method ELSE "GET"

NoRequest ==
    [built |-> FALSE, url_bytes |-> <<>>, headers |-> <<>>, version |-> "", method |-> "",
     stream |-> FALSE, body |-> <<>>]

\* Request(url_bytes, headers, version, method, transport, app): stream is None
Request(url, headers, version, method) ==
    [built |-> TRUE, url_bytes |-> url, headers |-> headers, version |-> version,
     method |-> method, stream |-> FALSE, body |-> <<>>]

\* instance.request = Request(...); request.stream = StreamBuffer() when the
\* application streams request bodies
build_request(sc) ==
    [Request(url_bytes(sc), scope_headers(sc), create_version(sc), create_method(sc))
        EXCEPT !.stream = is_request_stream]

\* create for an http scope: no suspension point
CreateHttp ==
    /\ create_pc = "start"
    /\ scope.type = "http"
    /\ do_stream' = compute_do_stream(scope)
    /\ IF url_bytes(scope) = EncodeError
       THEN /\ create_pc' = "raised"
            /\ error' = "UnicodeEncodeError"
            /\ UNCHANGED request
       ELSE /\ create_pc' = "done"
            /\ request' = build_request(scope)
            /\ UNCHANGED error
    /\ UNCHANGED <<scope, is_request_stream, ws, chanVars>>

\* create for a websocket scope, up to the suspension in ws.accept()
CreateWebsocket ==
    /\ create_pc = "start"
    /\ scope.type = "websocket"
    /\ do_stream' = compute_do_stream(scope)
    /\ IF url_bytes(scope) = EncodeError
       THEN /\ create_pc' = "raised"
            /\ error' = "UnicodeEncodeError"
            /\ UNCHANGED <<ws, sent, wsVars>>
       ELSE /\ create_pc' = "ws_accept"
            /\ ws' = "WebSocketConnection"
            /\ websocket' = create_websocket_connection(websocket).transport
            /\ ws_call' = WsCall("create", create_websocket_connection(websocket))
            /\ sent' = Append(sent, WebsocketAccept)
            /\ UNCHANGED error
    /\ UNCHANGED <<scope, is_request_stream, request, delivered>>

\* create for a websocket scope, after ws.accept() returned
CreateWebsocketAccepted ==
    /\ create_pc = "ws_accept"
    /\ create_pc' = "done"
    /\ request' = build_request(scope)
    /\ UNCHANGED <<scope, is_request_stream, do_stream, ws, error, chanVars>>

\* create for a scope that is none of lifespan, http, websocket: version and
\* method were never bound when Request(...) reads them
CreateOther ==
    /\ create_pc = "start"
    /\ scope.type \notin {"lifespan", "http", "websocket"}
    /\ do_stream' = compute_do_stream(scope)
    /\ create_pc' = "raised"
    /\ error' = IF url_bytes(scope) = EncodeError THEN "UnicodeEncodeError"
                ELSE "UnboundLocalError"
    /\ UNCHANGED <<scope, is_request_stream, ws, request, chanVars>>

-----------------------------------------------------------------------------
(* Lifespan *)

\* An inbound event; has_body / has_more say whether the mapping holds the key.
InEvent(type) ==
    [type |-> type, has_body |-> FALSE, body |-> <<>>, has_more |-> FALSE,
     more_body |-> FALSE]

EventNames ==
    {"before_server_start", "after_server_start", "before_server_stop", "after_server_stop"}

phase_order_swapped(pc) ==
    IF pc = "startup" THEN <<"after_server_start", "before_server_start">>
    ELSE <<"after_server_stop", "before_server_stop">>

\* The two listener lists startup() and shutdown() walk, in the order of their loops
phase_order(pc) ==
    IF pc = "startup" THEN <<"before_server_start", "after_server_start">>
    ELSE <<"before_server_stop", "after_server_stop">>

\* life.ph is the loop being run (1, 2) or 3 once both are over; life.idx the
\* listener of that loop to call next, or the one being awaited
LifePos(pc, ph, idx, awaiting) == [pc |-> pc, ph |-> ph, idx |-> idx, awaiting |-> awaiting]

LifeIdlePos == LifePos("idle", 1, 1, FALSE)

loop_len(pc, ph) == listeners[phase_order(pc)[ph]]

\* Where the two for-loops of startup()/shutdown() stand once listener idx of
\* loop ph is reached: an exhausted loop is left for the next one
loop_pos(pc, ph, idx) ==
    IF ph = 1 /\ idx > loop_len(pc, 1)
    THEN (IF loop_len(pc, 2) = 0 THEN LifePos(pc, 3, 1, FALSE) ELSE LifePos(pc, 2, 1, FALSE))
    ELSE IF ph = 2 /\ idx > loop_len(pc, 2) THEN LifePos(pc, 3, 1, FALSE)
    ELSE LifePos(pc, ph, idx, FALSE)

LogEntry(what, name, idx) == [what |-> what, name |-> name, idx |-> idx]

after_raise_swallowed(pos) == loop_pos(pos.pc, pos.ph, pos.idx + 1)

\* A listener's exception is caught nowhere: it leaves startup()/shutdown(),
\* Lifespan.__call__ and ASGIApp.create
after_raise(pos) == LifePos("raised", pos.ph, pos.idx, FALSE)

CreateLifespan_not_awaited ==
    /\ create_pc = "start"
    /\ scope.type = "lifespan"
    /\ do_stream' = compute_do_stream(scope)
    /\ create_pc' = "done"
    /\ life' = LifePos("recv1", 1, 1, FALSE)
    /\ UNCHANGED <<scope, is_request_stream, ws, request, error, listeners, log, chanVars>>

\* create for a lifespan scope: await instance.lifespan(scope, receive, send)
CreateLifespan ==
    /\ create_pc = "start"
    /\ scope.type = "lifespan"
    /\ do_stream' = compute_do_stream(scope)
    /\ create_pc' = "lifespan"
    /\ life' = LifePos("recv1", 1, 1, FALSE)
    /\ UNCHANGED <<scope, is_request_stream, ws, request, error, listeners, log, chanVars>>

LifespanEventTypes == {"lifespan.startup", "lifespan.shutdown"}

\* message = await receive(), the first one
LifeReceiveFirst ==
    /\ life.pc = "recv1"
    /\ \E t \in LifespanEventTypes :
        /\ delivered' = Append(delivered, InEvent(t))
        /\ life' = IF t = "lifespan.startup" THEN loop_pos("startup", 1, 1)
                   ELSE LifePos("recv2", 1, 1, FALSE)
    /\ UNCHANGED <<sent, createVars, listeners, log>>

\* response = handler(app, loop): the listener returns a plain value, returns an
\* awaitable, or raises
LifeCallListener ==
    /\ life.pc \in {"startup", "shutdown"}
    /\ life.ph <= 2
    /\ ~life.awaiting
    /\ LET name == phase_order(life.pc)[life.ph]
       IN \E outcome \in {"value", "awaitable", "raise"} :
            CASE outcome = "value" ->
                    /\ log' = log \o <<LogEntry("call", name, life.idx),
                                       LogEntry("done", name, life.idx)>>
                    /\ life' = loop_pos(life.pc, life.ph, life.idx + 1)
                    /\ UNCHANGED <<create_pc, error>>
              [] outcome = "awaitable" ->
                    /\ log' = Append(log, LogEntry("call", name, life.idx))
                    /\ life' = [life EXCEPT !.awaiting = TRUE]
                    /\ UNCHANGED <<create_pc, error>>
              [] outcome = "raise" ->
                    /\ log' = log \o <<LogEntry("call", name, life.idx),
                                       LogEntry("raise", name, life.idx)>>
                    /\ life' = after_raise(life)
                    /\ create_pc' = IF life'.pc = "raised" THEN "raised" ELSE create_pc
                    /\ error' = IF life'.pc = "raised" THEN "ListenerError" ELSE error
    /\ UNCHANGED <<scope, is_request_stream, do_stream, ws, request, listeners, chanVars>>

\* await response: the awaited listener finishes or raises
LifeAwaitListener ==
    /\ life.pc \in {"startup", "shutdown"}
    /\ life.awaiting
    /\ LET name == phase_order(life.pc)[life.ph]
       IN \E outcome \in {"done", "raise"} :
            /\ log' = Append(log, LogEntry(outcome, name, life.idx))
            /\ IF outcome = "done"
               THEN /\ life' = loop_pos(life.pc, life.ph, life.idx + 1)
                    /\ UNCHANGED <<create_pc, error>>
               ELSE /\ life' = after_raise(life)
                    /\ create_pc' = IF life'.pc = "raised" THEN "raised" ELSE create_pc
                    /\ error' = IF life'.pc = "raised" THEN "ListenerError" ELSE error
    /\ UNCHANGED <<scope, is_request_stream, do_stream, ws, request, listeners, chanVars>>

\* await send({"type": "lifespan.startup.complete"}): the event is handed to
\* send, and __call__ waits for send to return
LifeSendStartupComplete ==
    /\ life.pc = "startup"
    /\ life.ph = 3
    /\ sent' = Append(sent, OutEvent("lifespan.startup.complete"))
    /\ life' = LifePos("startup_sent", 1, 1, FALSE)
    /\ UNCHANGED <<delivered, createVars, listeners, log>>

\* send returns; __call__ goes on to its second receive()
LifeStartupCompleteReturns ==
    /\ life.pc = "startup_sent"
    /\ life' = LifePos("recv2", 1, 1, FALSE)
    /\ UNCHANGED <<chanVars, createVars, listeners, log>>

\* message = await receive(), the second one; any other event ends __call__ and
\* with it create, which returns the instance
LifeReceiveSecond ==
    /\ life.pc = "recv2"
    /\ \E t \in LifespanEventTypes :
        /\ delivered' = Append(delivered, InEvent(t))
        /\ IF t = "lifespan.shutdown"
           THEN life' = loop_pos("shutdown", 1, 1) /\ UNCHANGED create_pc
           ELSE life' = LifePos("done", 1, 1, FALSE) /\ create_pc' = "done"
    /\ UNCHANGED <<sent, scope, is_request_stream, do_stream, ws, request, error,
                   listeners, log>>

\* await send({"type": "lifespan.shutdown.complete"}): the event is handed to
\* send, and __call__ (and create, which awaits it) waits for send to return
LifeSendShutdownComplete ==
    /\ life.pc = "shutdown"
    /\ life.ph = 3
    /\ sent' = Append(sent, OutEvent("lifespan.shutdown.complete"))
    /\ life' = LifePos("shutdown_sent", 1, 1, FALSE)
    /\ UNCHANGED <<delivered, createVars, listeners, log>>

\* send returns; __call__ is over and create returns the instance
LifeShutdownCompleteReturns ==
    /\ life.pc = "shutdown_sent"
    /\ life' = LifePos("done", 1, 1, FALSE)
    /\ create_pc' = "done"
    /\ UNCHANGED <<chanVars, scope, is_request_stream, do_stream, ws, request, error,
                   listeners, log>>

\* pre.idx is the before_server_start listener pre_startup calls next, or the one
\* it awaits
PrePos(pc, idx, awaiting) == [pc |-> pc, idx |-> idx, awaiting |-> awaiting]

\* Where the for-loop of pre_startup stands once listener idx is reached
pre_loop_pos(idx) ==
    IF idx > listeners["before_server_start"] THEN PrePos("done", 1, FALSE)
    ELSE PrePos("run", idx, FALSE)

\* pre_startup catches nothing: a listener's exception leaves it
pre_after_raise(pos) == PrePos("raised", pos.idx, FALSE)

\* A caller awaits lifespan.pre_startup(), one call at a time; the Lifespan
\* object exists from the first step of create on
PreStartupCall ==
    /\ create_pc # "start"
    /\ pre.pc \in {"idle", "done", "raised"}
    /\ pre' = pre_loop_pos(1)
    /\ pre_log' = <<>>
    /\ UNCHANGED <<chanVars, createVars, lifeVars>>

\* pre_startup: response = handler(app, loop); the listener returns a plain
\* value, returns an awaitable, or raises
PreStartupCallListener ==
    /\ pre.pc = "run"
    /\ ~pre.awaiting
    /\ \E outcome \in {"value", "awaitable", "raise"} :
        CASE outcome = "value" ->
                /\ pre_log' = pre_log \o <<LogEntry("call", "before_server_start", pre.idx),
                                           LogEntry("done", "before_server_start", pre.idx)>>
                /\ pre' = pre_loop_pos(pre.idx + 1)
          [] outcome = "awaitable" ->
                /\ pre_log' = Append(pre_log, LogEntry("call", "before_server_start", pre.idx))
                /\ pre' = [pre EXCEPT !.awaiting = TRUE]
          [] outcome = "raise" ->
                /\ pre_log' = pre_log \o <<LogEntry("call", "before_server_start", pre.idx),
                                           LogEntry("raise", "before_server_start", pre.idx)>>
                /\ pre' = pre_after_raise(pre)
    /\ UNCHANGED <<chanVars, createVars, lifeVars>>

\* pre_startup: await response; the awaited listener finishes or raises
PreStartupAwaitListener ==
    /\ pre.pc = "run"
    /\ pre.awaiting
    /\ \E outcome \in {"done", "raise"} :
        /\ pre_log' = Append(pre_log, LogEntry(outcome, "before_server_start", pre.idx))
        /\ pre' = IF outcome = "done" THEN pre_loop_pos(pre.idx + 1)
                  ELSE pre_after_raise(pre)
    /\ UNCHANGED <<chanVars, createVars, lifeVars>>

PreIdle ==
    /\ pre = PrePos("idle", 1, FALSE)
    /\ pre_log = <<>>

LifeIdle ==
    /\ listeners = [n \in EventNames |-> 0]
    /\ life = LifeIdlePos
    /\ log = <<>>

-----------------------------------------------------------------------------
(* ASGIApp.__call__, read_body and stream_body *)

\* message.get("body", b"") and message.get("more_body", False)
msg_body(m) == IF m.has_body THEN m.body ELSE <<>>
msg_more_body(m) == IF m.has_more THEN m.more_body ELSE FALSE

\* request.stream.put(None) marks the end of the stream
StreamEnd == Absent

NoCall == [called |-> FALSE, write_stream |-> "None", callback |-> "None"]

handle_request_args_always_callback ==
    [called |-> TRUE, write_stream |-> "None", callback |-> "stream_callback"]

\* await handler(self.request, None, callback)
handle_request_args ==
    [called |-> TRUE, write_stream |-> "None",
     callback |-> IF ws # "None" THEN "None" ELSE "stream_callback"]

SbPos(pc, chunk, more) == [pc |-> pc, chunk |-> chunk, more |-> more]
SbNone == SbPos("none", <<>>, FALSE)

read_body_add_prepend(body, m) == msg_body(m) \o body

\* body += message.get("body", b"")
read_body_add(body, m) == body \o msg_body(m)

\* StreamBuffer.put: asyncio.Queue.put suspends while the queue is full
queue_full(q) == Len(q) >= BufferSize

\* await self.request.stream.put(None), after the loop
put_end(q) ==
    IF queue_full(q) THEN [sb |-> SbPos("put_end", <<>>, FALSE), q |-> q]
    ELSE [sb |-> SbPos("done", <<>>, FALSE), q |-> Append(q, StreamEnd)]

\* stream_body once a chunk is in the queue: the loop goes back to receive()
\* while more_body holds, else the end marker is put
after_put(q, more) ==
    IF more THEN [sb |-> SbPos("receive", <<>>, FALSE), q |-> q] ELSE put_end(q)

\* await self.request.stream.put(chunk)
put_chunk(q, chunk, more) ==
    IF queue_full(q) THEN [sb |-> SbPos("put", chunk, more), q |-> q]
    ELSE after_put(Append(q, chunk), more)

CallStart_reads_first ==
    /\ create_pc = "done"
    /\ main_pc = "start"
    /\ main_pc' = "read_body"
    /\ sb' = IF do_stream THEN SbPos("receive", <<>>, FALSE) ELSE sb
    /\ UNCHANGED <<handler_call, body_buf, stream, yielded, createVars, chanVars>>

\* __call__ up to its first suspension: read_body() waits in receive(), or the
\* stream_body task is created and the handler is called at once
CallStart ==
    /\ create_pc = "done"
    /\ main_pc = "start"
    /\ IF ~do_stream
       THEN /\ main_pc' = "read_body"
            /\ UNCHANGED <<sb, handler_call>>
       ELSE /\ sb' = SbPos("receive", <<>>, FALSE)
            /\ main_pc' = "handler"
            /\ handler_call' = handle_request_args
    /\ UNCHANGED <<body_buf, stream, yielded, createVars, chanVars>>

HttpEvents ==
    {[type |-> "http.request", has_body |-> hb, body |-> b, has_more |-> hm, more_body |-> mb] :
        hb \in BOOLEAN, b \in {<<>>, <<1>>, <<2>>}, hm \in BOOLEAN, mb \in BOOLEAN}

\* The events receive() may return: an absent key leaves its field at the default
InEvents ==
    {m \in HttpEvents : (~m.has_body => m.body = <<>>) /\ (m.has_body => m.body # <<>>)
                        /\ (~m.has_more => ~m.more_body)}
    \cup {InEvent("http.disconnect")}

\* read_body: one turn of the loop; after the last turn the body is stored in
\* the request and the handler is called
ReadBodyReceive ==
    /\ main_pc = "read_body"
    /\ Len(delivered) < MaxInbox
    /\ \E m \in InEvents :
        /\ delivered' = Append(delivered, m)
        /\ body_buf' = read_body_add(body_buf, m)
        /\ IF msg_more_body(m)
           THEN UNCHANGED <<main_pc, request, handler_call>>
           ELSE /\ request' = [request EXCEPT !.body = body_buf']
                /\ main_pc' = "handler"
                /\ handler_call' = handle_request_args
    /\ UNCHANGED <<sent, scope, is_request_stream, create_pc, do_stream, ws, error,
                   sb, stream, yielded>>

\* stream_body: receive() returns and the chunk is put; request.stream is None
\* unless the application streams request bodies
StreamBodyReceive ==
    /\ sb.pc = "receive"
    /\ Len(delivered) < MaxInbox
    /\ \E m \in InEvents :
        /\ delivered' = Append(delivered, m)
        /\ IF ~request.stream
           THEN /\ sb' = SbPos("raised", <<>>, FALSE)
                /\ UNCHANGED stream
           ELSE LET r == put_chunk(stream, msg_body(m), msg_more_body(m))
                IN  sb' = r.sb /\ stream' = r.q
    /\ UNCHANGED <<sent, createVars, main_pc, body_buf, yielded, handler_call>>

\* stream_body: a put that waited for room goes through
StreamBodyPut ==
    /\ sb.pc = "put"
    /\ ~queue_full(stream)
    /\ LET r == after_put(Append(stream, sb.chunk), sb.more)
       IN  sb' = r.sb /\ stream' = r.q
    /\ UNCHANGED <<chanVars, createVars, main_pc, body_buf, yielded, handler_call>>

\* stream_body: the put of the end marker that waited for room goes through
StreamBodyPutEnd ==
    /\ sb.pc = "put_end"
    /\ ~queue_full(stream)
    /\ LET r == put_end(stream)
       IN  sb' = r.sb /\ stream' = r.q
    /\ UNCHANGED <<chanVars, createVars, main_pc, body_buf, yielded, handler_call>>

\* The handler reads request.stream (StreamBuffer.read takes the head of the queue)
HandlerRead ==
    /\ main_pc = "handler"
    /\ request.stream
    /\ stream # <<>>
    /\ yielded' = Append(yielded, Head(stream))
    /\ stream' = Tail(stream)
    /\ UNCHANGED <<chanVars, createVars, main_pc, body_buf, sb, handler_call>>

BodyIdle ==
    /\ main_pc = "start"
    /\ body_buf = <<>>
    /\ sb = SbNone
    /\ stream = <<>>
    /\ yielded = <<>>
    /\ handler_call = NoCall

-----------------------------------------------------------------------------
(* MockProtocol and MockTransport.get_protocol *)

Tasks == 1..NTasks

BodyEvent(data, more) ==
    [OutEvent("http.response.body") EXCEPT !.body = data, !.more_body = more]

\* transport._protocol is None; made counts the MockProtocol objects constructed
NoProtocol == [created |-> FALSE, not_paused |-> FALSE, complete |-> FALSE, made |-> 0]

\* MockProtocol.__init__: _not_paused is set, _complete is not
MockProtocol_init(p) ==
    [created |-> TRUE, not_paused |-> TRUE, complete |-> FALSE, made |-> p.made + 1]

\* MockTransport.get_protocol: the protocol is constructed on the first call
get_protocol(p) == IF ~p.created THEN MockProtocol_init(p) ELSE p

pause_writing(p) == [p EXCEPT !.not_paused = FALSE]

resume_writing(p) == [p EXCEPT !.not_paused = TRUE]

event_set_wakes_first(d) ==
    LET waiting == {t \in DOMAIN d : d[t] = "waiting"}
    IN  [t \in DOMAIN d |->
            IF waiting # {} /\ t = CHOOSE u \in waiting : \A w \in waiting : u <= w
            THEN "woken" ELSE d[t]]

\* asyncio.Event.set: every task waiting on the event is woken
event_set_wakes(d) == [t \in DOMAIN d |-> IF d[t] = "waiting" THEN "woken" ELSE d[t]]

is_complete(p) == p.complete

push_data_waits(p, out, data) ==
    IF ~is_complete(p) /\ p.not_paused THEN Append(out, BodyEvent(data, TRUE)) ELSE out

\* MockProtocol.push_data: what transport.send has been given after the call
push_data(p, out, data) ==
    IF ~is_complete(p) THEN Append(out, BodyEvent(data, TRUE)) ELSE out

\* MockProtocol.drain: _not_paused.wait() returns at once when the event is set
drain(p) == IF p.not_paused THEN "out" ELSE "waiting"

complete_keeps_more_body(out) == Append(out, BodyEvent(<<>>, TRUE))

\* MockProtocol.complete: _not_paused.set(), then the closing body event
complete_proto(p) == [p EXCEPT !.not_paused = TRUE]
complete_sent(out) == Append(out, BodyEvent(<<>>, FALSE))

Call(op, t, p) == [op |-> op, task |-> t, writable |-> p.not_paused]
NoCallYet == [op |-> "none", task |-> 0, writable |-> FALSE]

ProtoChunks == {<<1>>, <<2>>}

\* transport.get_protocol()
ProtoGet ==
    /\ proto' = get_protocol(proto)
    /\ last_call' = Call("get_protocol", 0, proto)
    /\ UNCHANGED <<drain_st, sent>>

\* The transport layer calls protocol.pause_writing()
ProtoPause ==
    /\ proto.created
    /\ proto' = pause_writing(proto)
    /\ last_call' = Call("pause_writing", 0, proto)
    /\ UNCHANGED <<drain_st, sent>>

\* The transport layer calls protocol.resume_writing()
ProtoResume ==
    /\ proto.created
    /\ proto' = resume_writing(proto)
    /\ drain_st' = event_set_wakes(drain_st)
    /\ last_call' = Call("resume_writing", 0, proto)
    /\ UNCHANGED sent

\* Task t calls protocol.push_data(data)
ProtoPushData(t) ==
    /\ proto.created
    /\ drain_st[t] = "out"
    /\ Len(sent) < MaxSent
    /\ \E data \in ProtoChunks : sent' = push_data(proto, sent, data)
    /\ last_call' = Call("push_data", t, proto)
    /\ UNCHANGED <<proto, drain_st>>

\* Task t calls protocol.drain()
ProtoDrain(t) ==
    /\ proto.created
    /\ drain_st[t] = "out"
    /\ drain_st' = [drain_st EXCEPT ![t] = drain(proto)]
    /\ last_call' = Call("drain", t, proto)
    /\ UNCHANGED <<proto, sent>>

\* Task t, woken inside drain(), runs again: drain() returns
ProtoDrainReturn(t) ==
    /\ drain_st[t] = "woken"
    /\ drain_st' = [drain_st EXCEPT ![t] = "out"]
    /\ last_call' = Call("drain_return", t, proto)
    /\ UNCHANGED <<proto, sent>>

\* Task t calls protocol.complete()
ProtoComplete(t) ==
    /\ proto.created
    /\ drain_st[t] = "out"
    /\ Len(sent) < MaxSent
    /\ proto' = complete_proto(proto)
    /\ drain_st' = event_set_wakes(drain_st)
    /\ sent' = complete_sent(sent)
    /\ last_call' = Call("complete", t, proto)

ProtoIdle ==
    /\ proto = NoProtocol
    /\ drain_st = [t \in Tasks |-> "out"]
    /\ last_call = NoCallYet

-----------------------------------------------------------------------------
(* ASGIApp.stream_callback *)

s_content_length == <<99, 111, 110, 116, 101, 110, 116, 45, 108, 101, 110, 103, 116, 104>>
s_Content_Length == <<67, 111, 110, 116, 101, 110, 116, 45, 76, 101, 110, 103, 116, 104>>
s_Set_Cookie == <<83, 101, 116, 45, 67, 111, 111, 107, 105, 101>>
s_set_cookie == <<115, 101, 116, 45, 99, 111, 111, 107, 105, 101>>

\* The task that runs stream_callback and, inside it, the streaming response
CallbackTask == 1

\* An object without a headers attribute
InvalidResponse ==
    [kind |-> "Invalid", status |-> 0, headers |-> <<>>, body |-> <<>>, cookies |-> <<>>]

StartEvent(status, headers) ==
    [OutEvent("http.response.start") EXCEPT !.status = status, !.headers = headers]

\* (str(name).encode("latin-1"), str(value).encode("latin-1"))
encode_header(h) == <<Bytes(encode_latin1(h[1].v)), Bytes(encode_latin1(h[2].v))>>

encode_headers(hs) == [i \in 1..Len(hs) |-> encode_header(hs[i])]

\* if name not in (b"Set-Cookie",): name is a str, the tuple holds a bytes
not_set_cookie(h) == ~py_eq(h[1], Bytes(s_Set_Cookie))

\* The header list of the except branch
encode_headers_filtered(hs) == encode_headers(SelectSeq(hs, not_set_cookie))

\* "content-length" in response.headers, a CIMultiDict
multidict_contains(hs, key) == \E i \in 1..Len(hs) : Lower(hs[i][1].v) = Lower(key)

content_length_header_missing(r) == <<>>

content_length_header_always(r) ==
    <<<<Bytes(s_content_length), Bytes(encode_latin1(Digits(Len(r.body))))>>>>

\* The content-length pair stream_callback adds
content_length_header(r) ==
    IF ~multidict_contains(r.headers, s_content_length) /\ r.kind # "StreamingHTTPResponse"
    THEN <<<<Bytes(s_content_length), Bytes(encode_latin1(Digits(Len(r.body))))>>>>
    ELSE <<>>

\* Cookie.encode("utf-8"): the cookie's header text, name=value, as bytes
cookie_encode(c) == encode_utf8(c[1] \o <<61>> \o c[2])

\* One set-cookie pair per cookie of response.cookies
cookie_headers(r) ==
    [i \in 1..Len(r.cookies) |-> <<Bytes(s_set_cookie), Bytes(cookie_encode(r.cookies[i]))>>]

\* The header list of the start event for response r
start_headers(r, substituted) ==
    (IF substituted THEN encode_headers_filtered(r.headers) ELSE encode_headers(r.headers))
        \o content_length_header(r) \o cookie_headers(r)

\* The one body event of a response that is not streamed
final_body_event(r) == BodyEvent(r.body, FALSE)

H(name, value) == <<Str(name), Str(value)>>
RespHeaderLists ==
    {<<>>,
     <<H(<<120>>, <<118>>)>>,
     <<H(s_content_length, <<55>>)>>,
     <<H(s_Content_Length, <<55>>)>>,
     <<H(s_Set_Cookie, <<118>>)>>}
RespBodies == {<<>>, <<1, 2>>, <<1, 2, 3, 4, 5, 6, 7, 8, 9, 10>>}
\* response.cookies: no cookie, or the one cookie k=v
CookieJars == {<<>>, << << <<107>>, <<118>> >> >>}
Statuses == {200, 404}

Responses ==
    [kind : {"HTTPResponse"}, status : Statuses, headers : RespHeaderLists,
     body : RespBodies, cookies : CookieJars]
    \cup [kind : {"StreamingHTTPResponse"}, status : Statuses, headers : RespHeaderLists,
          body : {<<>>}, cookies : CookieJars]
    \cup {InvalidResponse}

\* What error_handler.response(request, ServerError) may return
ErrorResponses ==
    [kind : {"HTTPResponse"}, status : {500},
     headers : {<<>>, <<H(s_Set_Cookie, <<118>>)>>}, body : {<<69>>}, cookies : CookieJars]

\* stream_callback up to await transport.send(start event)
CallbackStart ==
    /\ resp_pc = "start"
    /\ IF response.kind = "Invalid"
       THEN \E e \in ErrorResponses :
                /\ logged' = Append(logged, "Invalid response object")
                /\ resp' = e
                /\ sent' = Append(sent, StartEvent(e.status, start_headers(e, TRUE)))
       ELSE /\ resp' = response
            /\ sent' = Append(sent, StartEvent(response.status, start_headers(response, FALSE)))
            /\ UNCHANGED logged
    /\ resp_pc' = "start_sent"
    /\ UNCHANGED <<response, pushed, protoVars>>

\* The response is not streamed: await transport.send(body event); the event is
\* handed to send, and stream_callback waits for send to return
CallbackSendBody ==
    /\ resp_pc = "start_sent"
    /\ resp.kind # "StreamingHTTPResponse"
    /\ sent' = Append(sent, final_body_event(resp))
    /\ resp_pc' = "body_sent"
    /\ UNCHANGED <<response, resp, pushed, logged, protoVars>>

\* The response is streamed: response.protocol = transport.get_protocol(), then
\* await response.stream()
CallbackStream ==
    /\ resp_pc = "start_sent"
    /\ resp.kind = "StreamingHTTPResponse"
    /\ proto' = get_protocol(proto)
    /\ resp_pc' = "stream"
    /\ UNCHANGED <<sent, response, resp, pushed, logged, drain_st, last_call>>

\* response.stream(): the body-producing procedure writes a chunk, which is
\* protocol.push_data(chunk) followed by protocol.drain()
StreamPush ==
    /\ resp_pc = "stream"
    /\ Len(pushed) < MaxChunks
    /\ \E data \in ProtoChunks :
        /\ pushed' = Append(pushed, data)
        /\ sent' = push_data(proto, sent, data)
    /\ resp_pc' = "drain"
    /\ last_call' = Call("push_data", CallbackTask, proto)
    /\ UNCHANGED <<response, resp, logged, proto, drain_st>>

\* response.stream(): await protocol.drain() after a write
StreamDrain ==
    /\ resp_pc = "drain"
    /\ drain_st[CallbackTask] = "out"
    /\ drain_st' = [drain_st EXCEPT ![CallbackTask] = drain(proto)]
    /\ resp_pc' = IF drain_st'[CallbackTask] = "out" THEN "stream" ELSE "drain"
    /\ last_call' = Call("drain", CallbackTask, proto)
    /\ UNCHANGED <<sent, response, resp, pushed, logged, proto>>

\* response.stream(): the task woken inside drain() runs again
StreamDrainReturn ==
    /\ resp_pc = "drain"
    /\ drain_st[CallbackTask] = "woken"
    /\ drain_st' = [drain_st EXCEPT ![CallbackTask] = "out"]
    /\ resp_pc' = "stream"
    /\ last_call' = Call("drain_return", CallbackTask, proto)
    /\ UNCHANGED <<sent, response, resp, pushed, logged, proto>>

\* response.stream() returns; await response.protocol.complete()
StreamComplete ==
    /\ resp_pc = "stream"
    /\ proto' = complete_proto(proto)
    /\ drain_st' = event_set_wakes(drain_st)
    /\ sent' = complete_sent(sent)
    /\ resp_pc' = "body_sent"
    /\ last_call' = Call("complete", CallbackTask, proto)
    /\ UNCHANGED <<response, resp, pushed, logged>>

\* The send of the last body event returns, and stream_callback with it
CallbackReturns ==
    /\ resp_pc = "body_sent"
    /\ resp_pc' = "done"
    /\ UNCHANGED <<sent, response, resp, pushed, logged, protoVars>>

\* What the handler of a whole connection answers with
ConnResponses ==
    {r \in Responses : /\ r.kind = "HTTPResponse"
                       /\ r.status = 200
                       /\ r.headers = <<>>
                       /\ r.cookies = <<>>
                       /\ Len(r.body) <= 2}

\* The handler hands its response to the callback it was called with; without a
\* callback it has nothing to call
HandlerRespond ==
    /\ main_pc = "handler"
    /\ handler_call.callback = "stream_callback"
    /\ resp_pc = "idle"
    /\ response' \in ConnResponses
    /\ resp_pc' = "start"
    /\ UNCHANGED <<resp, pushed, logged>>

RespIdle ==
    /\ response = InvalidResponse
    /\ resp = InvalidResponse
    /\ resp_pc = "idle"
    /\ pushed = <<>>
    /\ logged = <<>>

\* The scopes of SpecCreate
Paths == SeqsUpTo({47, 97, 32, 233}, MaxPathLen)
RootPaths == {Absent, <<47, 118>>, <<47, 233>>, <<8364>>}
QueryStrings == {<<>>, <<97, 61, 32>>, <<37, 50, 48>>}
Methods == {"GET", "POST"}
Versions == {"1.1", "2"}
b_Expect == <<69, 120, 112, 101, 99, 116>>
b_100_Continue == <<49, 48, 48, 45, 67, 111, 110, 116, 105, 110, 117, 101>>
HeaderLists ==
    {<<>>,
     <<<<s_expect, s_100_continue>>>>,
     <<<<b_Expect, s_100_continue>>>>,
     <<<<s_expect, b_100_Continue>>, <<s_expect, s_100_continue>>>>}
ScopeTypes == {"http", "websocket", "other"}

Scopes ==
    [type : ScopeTypes, path : Paths, root_path : RootPaths, query_string : QueryStrings,
     method : Methods, http_version : Versions, headers : HeaderLists]

CreateStart ==
    /\ create_pc = "start"
    /\ do_stream = FALSE
    /\ ws = "None"
    /\ request = NoRequest
    /\ error = NoError

vars == <<chanVars, createVars, lifeVars, preVars, bodyVars, protoVars, respVars, wsVars>>

ChanInit == sent = <<>> /\ delivered = <<>>

InitCreate ==
    /\ scope \in Scopes
    /\ is_request_stream \in BOOLEAN
    /\ CreateStart
    /\ ChanInit
    /\ LifeIdle
    /\ BodyIdle
    /\ ProtoIdle
    /\ WsIdle
    /\ PreIdle
    /\ RespIdle

NextCreate ==
    \/ CreateHttp /\ UNCHANGED <<preVars, wsVars, lifeVars, bodyVars, protoVars, respVars>>
    \/ CreateWebsocket /\ UNCHANGED <<preVars, lifeVars, bodyVars, protoVars, respVars>>
    \/ CreateWebsocketAccepted /\ UNCHANGED <<preVars, wsVars, lifeVars, bodyVars, protoVars, respVars>>
    \/ CreateOther /\ UNCHANGED <<preVars, wsVars, lifeVars, bodyVars, protoVars, respVars>>

SpecCreate == InitCreate /\ [][NextCreate]_vars


LifespanScope ==
    [type |-> "lifespan", path |-> <<>>, root_path |-> Absent, query_string |-> <<>>,
     method |-> "GET", http_version |-> "1.1", headers |-> <<>>]

InitLife ==
    /\ scope = LifespanScope
    /\ is_request_stream \in BOOLEAN
    /\ CreateStart
    /\ ChanInit
    /\ listeners \in [EventNames -> 0..MaxListeners]
    /\ life = LifeIdlePos
    /\ log = <<>>
    /\ BodyIdle
    /\ ProtoIdle
    /\ WsIdle
    /\ PreIdle
    /\ RespIdle

NextLife ==
    \/ CreateLifespan /\ UNCHANGED <<preVars, wsVars, bodyVars, protoVars, respVars>>
    \/ LifeReceiveFirst /\ UNCHANGED <<preVars, wsVars, bodyVars, protoVars, respVars>>
    \/ LifeCallListener /\ UNCHANGED <<preVars, wsVars, bodyVars, protoVars, respVars>>
    \/ LifeAwaitListener /\ UNCHANGED <<preVars, wsVars, bodyVars, protoVars, respVars>>
    \/ LifeSendStartupComplete /\ UNCHANGED <<preVars, wsVars, bodyVars, protoVars, respVars>>
    \/ LifeReceiveSecond /\ UNCHANGED <<preVars, wsVars, bodyVars, protoVars, respVars>>
    \/ LifeSendShutdownComplete /\ UNCHANGED <<preVars, wsVars, bodyVars, protoVars, respVars>>
    \/ LifeStartupCompleteReturns /\ UNCHANGED <<preVars, wsVars, bodyVars, protoVars, respVars>>
    \/ LifeShutdownCompleteReturns /\ UNCHANGED <<preVars, wsVars, bodyVars, protoVars, respVars>>
    \/ PreStartupCall /\ UNCHANGED <<wsVars, bodyVars, protoVars, respVars>>
    \/ PreStartupCallListener /\ UNCHANGED <<wsVars, bodyVars, protoVars, respVars>>
    \/ PreStartupAwaitListener /\ UNCHANGED <<wsVars, bodyVars, protoVars, respVars>>

SpecLife == InitLife /\ [][NextLife]_vars

\* The scopes of SpecBody: http and websocket, with and without expect: 100-continue
BodyScopes ==
    {sc \in Scopes : /\ sc.type \in {"http", "websocket"}
                     /\ sc.path = <<47>>
                     /\ sc.root_path = Absent
                     /\ sc.query_string = <<>>
                     /\ sc.method = "GET"
                     /\ sc.http_version = "1.1"
                     /\ Len(sc.headers) <= 1
                     /\ \A i \in 1..Len(sc.headers) : sc.headers[i][1] = s_expect}

InitBody ==
    /\ scope \in BodyScopes
    /\ is_request_stream \in BOOLEAN
    /\ CreateStart
    /\ ChanInit
    /\ LifeIdle
    /\ BodyIdle
    /\ ProtoIdle
    /\ WsIdle
    /\ PreIdle
    /\ RespIdle

NextBody ==
    \/ CreateHttp /\ UNCHANGED <<preVars, wsVars, lifeVars, bodyVars, protoVars, respVars>>
    \/ CreateWebsocket /\ UNCHANGED <<preVars, lifeVars, bodyVars, protoVars, respVars>>
    \/ CreateWebsocketAccepted /\ UNCHANGED <<preVars, wsVars, lifeVars, bodyVars, protoVars, respVars>>
    \/ CallStart /\ UNCHANGED <<preVars, wsVars, lifeVars, protoVars, respVars>>
    \/ ReadBodyReceive /\ UNCHANGED <<preVars, wsVars, lifeVars, protoVars, respVars>>
    \/ StreamBodyReceive /\ UNCHANGED <<preVars, wsVars, lifeVars, protoVars, respVars>>
    \/ StreamBodyPut /\ UNCHANGED <<preVars, wsVars, lifeVars, protoVars, respVars>>
    \/ StreamBodyPutEnd /\ UNCHANGED <<preVars, wsVars, lifeVars, protoVars, respVars>>
    \/ HandlerRead /\ UNCHANGED <<preVars, wsVars, lifeVars, protoVars, respVars>>

SpecBody == InitBody /\ [][NextBody]_vars


InitProto ==
    /\ scope \in BodyScopes /\ scope.type = "http" /\ scope.headers = <<>>
    /\ is_request_stream = FALSE
    /\ CreateStart
    /\ ChanInit
    /\ LifeIdle
    /\ BodyIdle
    /\ ProtoIdle
    /\ WsIdle
    /\ PreIdle
    /\ RespIdle

NextProto ==
    \/ ProtoGet /\ UNCHANGED <<preVars, wsVars, delivered, createVars, lifeVars, bodyVars, respVars>>
    \/ ProtoPause /\ UNCHANGED <<preVars, wsVars, delivered, createVars, lifeVars, bodyVars, respVars>>
    \/ ProtoResume /\ UNCHANGED <<preVars, wsVars, delivered, createVars, lifeVars, bodyVars, respVars>>
    \/ \E t \in Tasks :
        ProtoPushData(t) /\ UNCHANGED <<preVars, wsVars, delivered, createVars, lifeVars, bodyVars, respVars>>
    \/ \E t \in Tasks :
        ProtoDrain(t) /\ UNCHANGED <<preVars, wsVars, delivered, createVars, lifeVars, bodyVars, respVars>>
    \/ \E t \in Tasks :
        ProtoDrainReturn(t) /\ UNCHANGED <<preVars, wsVars, delivered, createVars, lifeVars, bodyVars, respVars>>
    \/ \E t \in Tasks :
        ProtoComplete(t) /\ UNCHANGED <<preVars, wsVars, delivered, createVars, lifeVars, bodyVars, respVars>>

SpecProto == InitProto /\ [][NextProto]_vars


InitResp ==
    /\ scope \in BodyScopes /\ scope.type = "http" /\ scope.headers = <<>>
    /\ is_request_stream = FALSE
    /\ CreateStart
    /\ ChanInit
    /\ LifeIdle
    /\ BodyIdle
    /\ ProtoIdle
    /\ WsIdle
    /\ PreIdle
    /\ response \in Responses
    /\ resp = InvalidResponse
    /\ resp_pc = "start"
    /\ pushed = <<>>
    /\ logged = <<>>

NextResp ==
    \/ CallbackStart /\ UNCHANGED <<preVars, wsVars, delivered, createVars, lifeVars, bodyVars>>
    \/ CallbackSendBody /\ UNCHANGED <<preVars, wsVars, delivered, createVars, lifeVars, bodyVars>>
    \/ CallbackStream /\ UNCHANGED <<preVars, wsVars, delivered, createVars, lifeVars, bodyVars>>
    \/ StreamPush /\ UNCHANGED <<preVars, wsVars, delivered, createVars, lifeVars, bodyVars>>
    \/ StreamDrain /\ UNCHANGED <<preVars, wsVars, delivered, createVars, lifeVars, bodyVars>>
    \/ StreamDrainReturn /\ UNCHANGED <<preVars, wsVars, delivered, createVars, lifeVars, bodyVars>>
    \/ StreamComplete /\ UNCHANGED <<preVars, wsVars, delivered, createVars, lifeVars, bodyVars>>
    \/ CallbackReturns /\ UNCHANGED <<preVars, wsVars, delivered, createVars, lifeVars, bodyVars>>
    \/ ProtoPause /\ UNCHANGED <<preVars, wsVars, delivered, createVars, lifeVars, bodyVars, respVars>>
    \/ ProtoResume /\ UNCHANGED <<preVars, wsVars, delivered, createVars, lifeVars, bodyVars, respVars>>

SpecResp == InitResp /\ [][NextResp]_vars


\* A whole http or websocket connection: create, __call__, the body, and the
\* handler's response through the callback it was given
NextConn ==
    \/ CreateHttp /\ UNCHANGED <<preVars, wsVars, lifeVars, bodyVars, protoVars, respVars>>
    \/ CreateWebsocket /\ UNCHANGED <<preVars, lifeVars, bodyVars, protoVars, respVars>>
    \/ CreateWebsocketAccepted /\ UNCHANGED <<preVars, wsVars, lifeVars, bodyVars, protoVars, respVars>>
    \/ CallStart /\ UNCHANGED <<preVars, wsVars, lifeVars, protoVars, respVars>>
    \/ ReadBodyReceive /\ UNCHANGED <<preVars, wsVars, lifeVars, protoVars, respVars>>
    \/ StreamBodyReceive /\ UNCHANGED <<preVars, wsVars, lifeVars, protoVars, respVars>>
    \/ StreamBodyPut /\ UNCHANGED <<preVars, wsVars, lifeVars, protoVars, respVars>>
    \/ StreamBodyPutEnd /\ UNCHANGED <<preVars, wsVars, lifeVars, protoVars, respVars>>
    \/ HandlerRead /\ UNCHANGED <<preVars, wsVars, lifeVars, protoVars, respVars>>
    \/ HandlerRespond /\ UNCHANGED <<preVars, wsVars, chanVars, createVars, lifeVars, bodyVars, protoVars>>
    \/ CallbackStart /\ UNCHANGED <<preVars, wsVars, delivered, createVars, lifeVars, bodyVars>>
    \/ CallbackSendBody /\ UNCHANGED <<preVars, wsVars, delivered, createVars, lifeVars, bodyVars>>
    \/ CallbackReturns /\ UNCHANGED <<preVars, wsVars, delivered, createVars, lifeVars, bodyVars>>

SpecConn == InitBody /\ [][NextConn]_vars

\* The transport of one connection, with callers that ask for the WebSocket
\* connection or create one at any moment
InitWs ==
    /\ scope \in BodyScopes
    /\ is_request_stream \in BOOLEAN
    /\ CreateStart
    /\ ChanInit
    /\ LifeIdle
    /\ BodyIdle
    /\ ProtoIdle
    /\ WsIdle
    /\ PreIdle
    /\ RespIdle

NextWs ==
    \/ CreateHttp /\ UNCHANGED <<preVars, wsVars, lifeVars, bodyVars, protoVars, respVars>>
    \/ CreateWebsocket /\ UNCHANGED <<preVars, lifeVars, bodyVars, protoVars, respVars>>
    \/ CreateWebsocketAccepted /\ UNCHANGED <<preVars, wsVars, lifeVars, bodyVars, protoVars, respVars>>
    \/ WsGet /\ UNCHANGED <<preVars, chanVars, createVars, lifeVars, bodyVars, protoVars, respVars>>
    \/ WsCreate /\ UNCHANGED <<preVars, chanVars, createVars, lifeVars, bodyVars, protoVars, respVars>>

SpecWs == InitWs /\ [][NextWs]_vars

-----------------------------------------------------------------------------
(* Properties *)

IsPrefix(a, b) == Len(a) <= Len(b) /\ SubSeq(b, 1, Len(a)) = a

WasSent(type) == \E i \in 1..Len(sent) : sent[i].type = type

RECURSIVE Concat(_)
Concat(ss) == IF ss = <<>> THEN <<>> ELSE Head(ss) \o Concat(Tail(ss))

\* The body field of each event, b"" for an event without one
BodyFields(events) ==
    [i \in 1..Len(events) |-> IF events[i].has_body THEN events[i].body ELSE <<>>]

\* The event reports no more body: more_body is false or missing
ReportsEnd(m) == ~(m.has_more /\ m.more_body)

\* Exactly the last event received reports the end of the body
EndsWithFinal(events) ==
    /\ events # <<>>
    /\ \A i \in 1..Len(events) : ReportsEnd(events[i]) <=> i = Len(events)

\* C3: for a request that is not streamed, the handler is called only once an
\* event reporting no more body was received, its request holds the
\* concatenation of the body fields of all events received, in order, and the
\* event reporting the end is the last one read_body ever consumes.
C3_BufferedBodyComplete ==
    (~do_stream /\ create_pc = "done") =>
        /\ handler_call.called =>
              /\ EndsWithFinal(delivered)
              /\ request.body = Concat(BodyFields(delivered))
        /\ ~handler_call.called =>
              /\ \A i \in 1..Len(delivered) : ~ReportsEnd(delivered[i])
              /\ request.body = <<>>

C3_Witness ==
    /\ ~do_stream
    /\ handler_call.called
    /\ Len(delivered) = 3
    /\ request.body = <<2, 1>>

\* C4 as stated: for every streamed request (do_stream, whatever
\* is_request_stream is), in every interleaving of stream_body and the
\* handler, what the Stream has yielded and still holds is, in delivery order,
\* the chunks of the events received followed by one end marker once the event
\* reporting the end is in; nothing follows the marker, and whenever
\* stream_body is not waiting inside a put, however it ended, all that was
\* received is in the Stream.
C4_StreamInOrder ==
    (do_stream /\ request.built) =>
        LET final == delivered # <<>> /\ ReportsEnd(delivered[Len(delivered)])
            full == BodyFields(delivered) \o (IF final THEN <<StreamEnd>> ELSE <<>>)
            out == yielded \o stream
        IN  /\ IsPrefix(out, full)
            /\ \A i \in 1..Len(delivered) : ReportsEnd(delivered[i]) => i = Len(delivered)
            /\ \A i \in 1..Len(out) : out[i] = StreamEnd => (i = Len(out) /\ final)
            /\ sb.pc \notin {"put", "put_end"} => out = full
            /\ sb.pc = "done" <=> (final /\ out = full)
            /\ sb.pc = "put" => out \o <<sb.chunk>> = BodyFields(delivered)
            /\ sb.pc = "put_end" => out = BodyFields(delivered) /\ final

ListenerRun(name) ==
    [k \in 1..(2 * listeners[name]) |->
        LogEntry(IF k % 2 = 1 THEN "call" ELSE "done", name, (k + 1) \div 2)]

ExpectedStartup == ListenerRun("before_server_start") \o ListenerRun("after_server_start")
ExpectedShutdown == ListenerRun("before_server_stop") \o ListenerRun("after_server_stop")

StartupAsked == Len(delivered) >= 1 /\ delivered[1].type = "lifespan.startup"
ShutdownAsked == Len(delivered) >= 2 /\ delivered[2].type = "lifespan.shutdown"

ExpectedLog ==
    (IF StartupAsked THEN ExpectedStartup ELSE <<>>)
        \o (IF ShutdownAsked THEN ExpectedShutdown ELSE <<>>)

\* The log with a listener's failure read as its end
Ended(l) == [i \in 1..Len(l) |-> IF l[i].what = "raise" THEN [l[i] EXCEPT !.what = "done"] ELSE l[i]]

\* C5: on lifespan.startup the before_server_start listeners run in registration
\* order, then the after_server_start ones, each ending before the next is called,
\* and lifespan.startup.complete is sent only after the last has ended; likewise
\* on lifespan.shutdown for before_server_stop, after_server_stop and
\* lifespan.shutdown.complete.
C5_ListenersInOrder ==
    /\ IsPrefix(Ended(log), ExpectedLog)
    /\ WasSent("lifespan.startup.complete") =>
          StartupAsked /\ IsPrefix(ExpectedStartup, log)
    /\ WasSent("lifespan.shutdown.complete") =>
          ShutdownAsked /\ log = ExpectedLog

C5_Witness ==
    /\ WasSent("lifespan.startup.complete")
    /\ WasSent("lifespan.shutdown.complete")
    /\ \A n \in EventNames : listeners[n] = 2
    /\ Len(log) = 16

\* C6: once a lifespan listener has raised, the coroutine that called it calls no
\* listener any more and the error has left it instead of being swallowed: for
\* startup() and shutdown() the complete event of that phase is not sent and the
\* error leaves the coordinator and create; for pre_startup() it leaves
\* pre_startup.
C6_ListenerErrorPropagates ==
    /\ \A i \in 1..Len(log) :
          log[i].what = "raise" =>
              /\ i = Len(log)
              /\ life.pc = "raised"
              /\ create_pc = "raised"
              /\ error = "ListenerError"
              /\ log[i].name \in {"before_server_start", "after_server_start"} =>
                    ~WasSent("lifespan.startup.complete")
              /\ log[i].name \in {"before_server_stop", "after_server_stop"} =>
                    ~WasSent("lifespan.shutdown.complete")
    /\ \A i \in 1..Len(pre_log) :
          pre_log[i].what = "raise" => (i = Len(pre_log) /\ pre.pc = "raised")

C6_Witness ==
    /\ log # <<>>
    /\ log[Len(log)] = LogEntry("raise", "before_server_start", 1)
    /\ listeners["before_server_start"] = 2
    /\ listeners["after_server_start"] = 2
    /\ create_pc = "raised"

\* Percent-decoding, the inverse the URL is read back with
HexValue(d) == IF d >= 65 THEN d - 55 ELSE d - 48

RECURSIVE Unquote(_)
Unquote(bs) ==
    IF bs = <<>> THEN <<>>
    ELSE IF Head(bs) = 37 /\ Len(bs) >= 3
         THEN <<16 * HexValue(bs[2]) + HexValue(bs[3])>> \o Unquote(SubSeq(bs, 4, Len(bs)))
         ELSE <<Head(bs)>> \o Unquote(Tail(bs))

RECURSIVE Utf8Of(_)
Utf8Of(s) == IF s = <<>> THEN <<>> ELSE utf8(Head(s)) \o Utf8Of(Tail(s))

\* C10: a constructed Request has the scope's method and http_version for an http
\* scope, GET and 1.1 for a websocket scope, and its URL is root_path, then the
\* path percent-encoded (only unreserved characters and "/" left as they are, every
\* other byte of its UTF-8 form escaped), then "?" and the query string unchanged,
\* the "?" also before an empty query string.
C10_RequestReflectsScope ==
    request.built =>
        LET root == IF scope.root_path = Absent THEN <<>> ELSE scope.root_path
            qs == scope.query_string
            url == request.url_bytes
            n == Len(url)
            mid == SubSeq(url, Len(root) + 1, n - Len(qs) - 1)
        IN  /\ n >= Len(root) + 1 + Len(qs)
            /\ SubSeq(url, 1, Len(root)) = root
            /\ url[n - Len(qs)] = 63
            /\ SubSeq(url, n - Len(qs) + 1, n) = qs
            /\ \A i \in 1..Len(mid) : mid[i] \in QuoteSafe \cup {37}
            /\ Unquote(mid) = Utf8Of(scope.path)
            /\ Len(mid) = Len(scope.path)
                  + 2 * Cardinality({i \in 1..Len(scope.path) : scope.path[i] \notin QuoteSafe})
                  + 3 * Cardinality({i \in 1..Len(scope.path) : scope.path[i] > 127})
            /\ scope.type = "http" =>
                  request.method = scope.method /\ request.version = scope.http_version
            /\ scope.type = "websocket" =>
                  request.method = "GET" /\ request.version = "1.1"

C10_Witness ==
    /\ request.built
    /\ scope.type = "http"
    /\ scope.method = "POST"
    /\ scope.http_version = "2"
    /\ scope.path = <<47, 233>>
    /\ scope.root_path = <<47, 233>>
    /\ scope.query_string = <<>>
    /\ request.url_bytes = <<47, 233, 47, 37, 67, 51, 37, 65, 57, 63>>

RECURSIVE DecimalValue(_)
DecimalValue(ds) ==
    IF ds = <<>> THEN 0
    ELSE 10 * DecimalValue(SubSeq(ds, 1, Len(ds) - 1)) + (ds[Len(ds)] - 48)

\* The places of the headers called name, whatever the case, in an encoded list
Named(hs, name) == {i \in 1..Len(hs) : Lower(hs[i][1].v) = name}

CarriesContentLength(r) ==
    \E i \in 1..Len(r.headers) : Lower(r.headers[i][1].v) = s_content_length

\* C1: for a Response that is not streamed and has no content-length header,
\* stream_callback sends one http.response.start whose headers hold one
\* content-length, the decimal length of the body, then one http.response.body
\* with that body and more_body false, and nothing else.
C1_PlainResponseRoundTrip ==
    (response.kind = "HTTPResponse" /\ ~CarriesContentLength(response)) =>
        /\ Len(sent) = (CASE resp_pc = "start" -> 0 [] resp_pc = "start_sent" -> 1 [] OTHER -> 2)
        /\ resp_pc \in {"start", "start_sent", "body_sent", "done"}
        /\ Len(sent) >= 1 =>
              /\ sent[1].type = "http.response.start"
              /\ sent[1].status = response.status
              /\ Cardinality(Named(sent[1].headers, s_content_length)) = 1
              /\ \A i \in Named(sent[1].headers, s_content_length) :
                    /\ sent[1].headers[i][2].t = "bytes"
                    /\ DecimalValue(sent[1].headers[i][2].v) = Len(response.body)
        /\ Len(sent) = 2 =>
              /\ sent[2].type = "http.response.body"
              /\ sent[2].body = response.body
              /\ sent[2].more_body = FALSE

C1_Witness ==
    /\ resp_pc = "done"
    /\ response.kind = "HTTPResponse"
    /\ response.headers = <<H(<<120>>, <<118>>)>>
    /\ Len(response.body) = 10
    /\ response.cookies # <<>>
    /\ Len(sent) = 2

\* C2: for a streaming Response the events sent are one http.response.start, then
\* one http.response.body with more_body true per chunk written, in the order
\* written, then one http.response.body with an empty body and more_body false,
\* after which nothing is sent.
C2_StreamingResponseEvents ==
    response.kind = "StreamingHTTPResponse" =>
        /\ Len(sent) = (CASE resp_pc = "start" -> 0
                          [] resp_pc \in {"body_sent", "done"} -> Len(pushed) + 2
                          [] OTHER -> Len(pushed) + 1)
        /\ Len(sent) >= 1 =>
              /\ sent[1].type = "http.response.start"
              /\ sent[1].status = response.status
        /\ \A i \in 1..Len(pushed) :
              /\ sent[i + 1].type = "http.response.body"
              /\ sent[i + 1].body = pushed[i]
              /\ sent[i + 1].more_body = TRUE
        /\ resp_pc \in {"body_sent", "done"} =>
              /\ sent[Len(sent)].type = "http.response.body"
              /\ sent[Len(sent)].body = <<>>
              /\ sent[Len(sent)].more_body = FALSE

C2_Witness ==
    /\ response.kind = "StreamingHTTPResponse"
    /\ resp_pc = "done"
    /\ pushed = <<<<2>>, <<1>>>>
    /\ ~last_call.writable

\* C7 as stated: a push_data call made while the signal is paused sends nothing
\* until resume_writing() is called.
C7_PausedPushSendsNothing ==
    [][\A t \in Tasks : (ProtoPushData(t) /\ ~proto.not_paused) => sent' = sent]_vars

\* C7, amended: push_data does not consult the signal: a call made while it is
\* paused sends the chunk's http.response.body event at once and the chunk is
\* never dropped; it is drain(), awaited after the push, that suspends while the
\* signal is paused, and only a call that sets the signal ends that wait.
C7_PushSendsAtOnce ==
    /\ [][\A t \in Tasks :
            ProtoPushData(t) =>
                /\ Len(sent') = Len(sent) + 1
                /\ SubSeq(sent', 1, Len(sent)) = sent
                /\ sent'[Len(sent')].type = "http.response.body"
                /\ sent'[Len(sent')].body \in ProtoChunks
                /\ sent'[Len(sent')].more_body = TRUE]_vars
    /\ [][\A t \in Tasks :
            /\ (ProtoDrain(t) /\ ~proto.not_paused) => drain_st'[t] = "waiting"
            /\ (drain_st[t] = "waiting" /\ drain_st'[t] # "waiting") =>
                  (proto'.not_paused /\ last_call'.op \in {"resume_writing", "complete"})]_vars

C7_Witness ==
    /\ last_call.op = "push_data"
    /\ ~last_call.writable
    /\ ~proto.not_paused
    /\ Len(sent) = 2
    /\ sent[2].more_body

\* C8 as stated, for the headers the substituted response carries: given an object
\* without headers, stream_callback logs, sends the start event with the status of
\* the error handler's response, and no Set-Cookie header of that response is in
\* the header list of the event.
C8_SubstitutedStartHasNoSetCookie ==
    (response.kind = "Invalid" /\ resp_pc # "start") =>
        /\ logged # <<>>
        /\ sent[1].type = "http.response.start"
        /\ sent[1].status = resp.status
        /\ \A i \in 1..Len(resp.headers) :
              Lower(resp.headers[i][1].v) = s_set_cookie =>
                  \A j \in 1..Len(sent[1].headers) :
                      sent[1].headers[j] # <<Bytes(resp.headers[i][1].v), Bytes(resp.headers[i][2].v)>>

\* C9: the signal is writable when the protocol is constructed; drain() returns at
\* once when it is writable and suspends when it is paused; resume_writing() wakes
\* every task suspended in drain(), so that none waits while the signal is
\* writable; pause_writing() and resume_writing() change the signal and nothing
\* else.
C9_BackpressureSignal ==
    /\ [](proto.created /\ proto.not_paused => \A t \in Tasks : drain_st[t] # "waiting")
    /\ [][(~proto.created /\ proto'.created) => proto'.not_paused]_vars
    /\ [][\A t \in Tasks :
            ProtoDrain(t) => drain_st'[t] = (IF proto.not_paused THEN "out" ELSE "waiting")]_vars
    /\ [][ProtoResume =>
            /\ proto'.not_paused
            /\ \A t \in Tasks :
                  drain_st'[t] = (IF drain_st[t] = "waiting" THEN "woken" ELSE drain_st[t])
            /\ sent' = sent
            /\ proto'.complete = proto.complete /\ proto'.made = proto.made]_vars
    /\ [][ProtoPause =>
            /\ ~proto'.not_paused
            /\ drain_st' = drain_st
            /\ sent' = sent
            /\ proto'.complete = proto.complete /\ proto'.made = proto.made]_vars

C9_Witness ==
    /\ last_call.op = "resume_writing"
    /\ ~last_call.writable
    /\ proto.not_paused
    /\ \A t \in Tasks : drain_st[t] = "woken"

\* C11: get_websocket_connection() raises InvalidUsage and changes nothing on the
\* transport as long as create_websocket_connection() was never called; after a
\* create call it returns the object the last create call cached and returned,
\* and constructs none.
C11_WebsocketGetAfterCreate ==
    /\ [](websocket.conn = NoConn <=> websocket.made = 0)
    /\ [][WsGet =>
            /\ websocket' = websocket
            /\ IF websocket.made = 0
               THEN ws_call'.error = "InvalidUsage" /\ ws_call'.result = NoConn
               ELSE ws_call'.error = NoError /\ ws_call'.result = websocket.conn]_vars
    /\ [][(websocket'.made # websocket.made) =>
            /\ ws_call'.op = "create"
            /\ websocket'.made = websocket.made + 1
            /\ websocket'.conn = websocket'.made
            /\ ws_call'.result = websocket'.conn]_vars

C11_Witness ==
    /\ ws_call.op = "get"
    /\ ws_call.result = 2
    /\ websocket.made = 2
    /\ scope.type = "websocket"

\* The places in sent of the events of a type
SentAt(type) == {i \in 1..Len(sent) : sent[i].type = type}

\* C12 as stated: in a run of the Lifespan coordinator the stop listeners run and
\* lifespan.shutdown.complete is sent only after lifespan.startup.complete was
\* sent, each complete event is sent at most once, and nothing is sent after
\* lifespan.shutdown.complete.
C12_StartedBeforeStopped ==
    /\ Cardinality(SentAt("lifespan.startup.complete")) <= 1
    /\ Cardinality(SentAt("lifespan.shutdown.complete")) <= 1
    /\ \A i \in SentAt("lifespan.shutdown.complete") :
          /\ i = Len(sent)
          /\ \E j \in SentAt("lifespan.startup.complete") : j < i
    /\ (\E k \in 1..Len(log) : log[k].name \in {"before_server_stop", "after_server_stop"})
          => WasSent("lifespan.startup.complete")

NotEnd(x) == x # StreamEnd

\* The chunks that went into the Stream: read by the handler, still queued, or
\* held by a put that waits for room
StreamedChunks ==
    SelectSeq(yielded \o stream, NotEnd) \o (IF sb.pc = "put" THEN <<sb.chunk>> ELSE <<>>)

\* C13 as stated: whatever do_stream and is_request_stream are, a launched
\* stream_body has a Stream to put into, and every chunk received reaches the
\* handler once: in the buffered body of the request when the request is not
\* streamed, in the Stream when it is, never in both and never in neither.
C13_BodyDeliveredOnce ==
    /\ sb.pc # "none" => request.stream
    /\ (~do_stream /\ handler_call.called) =>
          /\ request.body = Concat(BodyFields(delivered))
          /\ StreamedChunks = <<>>
    /\ (do_stream /\ handler_call.called) =>
          /\ request.body = <<>>
          /\ StreamedChunks = BodyFields(delivered)

\* C14 as stated: for a scope that is none of http, websocket and lifespan,
\* create builds no Request, sends nothing, and returns without raising.
C14_UnknownScopeSilent ==
    (scope.type \notin {"http", "websocket", "lifespan"} /\ create_pc # "start") =>
        /\ ~request.built
        /\ sent = <<>>
        /\ create_pc = "done"
        /\ error = NoError

Disconnected == \E i \in 1..Len(delivered) : delivered[i].type = "http.disconnect"

\* C15 as stated: once read_body or stream_body has received http.disconnect, the
\* handler is not called with a buffered body and the Stream gets no end marker,
\* as they would be had the body completed.
C15_DisconnectIsClosure ==
    Disconnected =>
        /\ ~do_stream => ~handler_call.called
        /\ do_stream => \A i \in 1..Len(yielded \o stream) : (yielded \o stream)[i] # StreamEnd

\* C16: for a lifespan scope create builds no Request, creates no WebSocket
\* connection and calls no handler, returns only once Lifespan.__call__ is over,
\* and the only events sent are lifespan.startup.complete and
\* lifespan.shutdown.complete.
C16_LifespanDelegation ==
    scope.type = "lifespan" =>
        /\ ~request.built
        /\ ws = "None"
        /\ ~handler_call.called
        /\ \A i \in 1..Len(sent) :
              sent[i].type \in {"lifespan.startup.complete", "lifespan.shutdown.complete"}
        /\ create_pc = "done" => life.pc = "done"
        /\ life.pc \in {"recv1", "startup", "startup_sent", "recv2", "shutdown",
                        "shutdown_sent"} => create_pc = "lifespan"

C16_Witness ==
    /\ scope.type = "lifespan"
    /\ create_pc = "done"
    /\ Len(sent) = 2
    /\ Len(log) = 16
    /\ ~request.built

\* C17: when do_stream is true __call__ never waits in read_body: the handler is
\* called in the step that creates the stream_body task, before any event was
\* received and while the Stream is empty, and from then on events are received
\* by stream_body only.
C17_HandlerNotWaiting ==
    /\ [](do_stream /\ main_pc # "start" =>
            main_pc = "handler" /\ handler_call.called /\ body_buf = <<>>)
    /\ [][(do_stream /\ ~handler_call.called /\ handler_call'.called) =>
            /\ delivered = <<>> /\ delivered' = <<>>
            /\ stream' = <<>> /\ yielded' = <<>>
            /\ sb.pc = "none" /\ sb'.pc = "receive"]_vars
    /\ [][(do_stream /\ delivered' # delivered) =>
            sb.pc = "receive" /\ handler_call.called /\ main_pc' = main_pc]_vars

C17_Witness ==
    /\ do_stream
    /\ handler_call.called
    /\ delivered = <<>>
    /\ sb.pc = "receive"
    /\ stream = <<>>

ResponseEventTypes == {"http.response.start", "http.response.body"}

\* C18: for a websocket scope the WebSocket connection is created and its
\* acceptance sent before the Request exists, the handler is called without a
\* callback, and no http.response.start or http.response.body is ever sent on
\* the connection; for an http scope the handler is called with stream_callback.
C18_WebsocketNoCallback ==
    /\ [](scope.type = "websocket" =>
            /\ request.built =>
                  /\ ws # "None" /\ websocket.conn # NoConn
                  /\ sent # <<>> /\ sent[1] = WebsocketAccept
            /\ handler_call.called => handler_call.callback = "None"
            /\ \A i \in 1..Len(sent) : sent[i].type \notin ResponseEventTypes
            /\ resp_pc = "idle")
    /\ [](scope.type = "http" =>
            /\ ws = "None"
            /\ handler_call.called => handler_call.callback = "stream_callback")
    /\ [][(scope.type = "websocket" /\ ~request.built /\ request'.built) =>
            (ws # "None" /\ WasSent("websocket.accept"))]_vars

C18_Witness ==
    /\ scope.type = "websocket"
    /\ handler_call.called
    /\ handler_call.callback = "None"
    /\ do_stream
    /\ yielded # <<>>
    /\ sent = <<WebsocketAccept>>

\* The places of the headers called name, whatever the case, in a response's headers
OwnNamed(r, name) == {i \in 1..Len(r.headers) : Lower(r.headers[i][1].v) = name}

\* C19: the start event holds a computed content-length, the decimal length of
\* the body, exactly when the response sent has no content-length header of its
\* own and is not a streaming response; a streaming response gets none, and a
\* response that has the header keeps it, once and with its own value.
C19_ContentLengthExactlyWhen ==
    resp_pc # "start" =>
        LET hs == sent[1].headers
            own == OwnNamed(resp, s_content_length)
            got == Named(hs, s_content_length)
            computed == own = {} /\ resp.kind # "StreamingHTTPResponse"
        IN  /\ sent[1].type = "http.response.start"
            /\ Cardinality(got) = Cardinality(own) + (IF computed THEN 1 ELSE 0)
            /\ \A i \in own : i \in got /\ hs[i][2] = Bytes(resp.headers[i][2].v)
            /\ computed =>
                  \E i \in got :
                      /\ i = Len(resp.headers) + 1
                      /\ hs[i] = <<Bytes(s_content_length), Bytes(Digits(Len(resp.body)))>>
            /\ resp.kind = "StreamingHTTPResponse" => got = own

C19_Witness ==
    /\ resp_pc = "done"
    /\ response.kind = "HTTPResponse"
    /\ response.headers = <<H(s_Content_Length, <<55>>)>>
    /\ Len(response.body) = 10
    /\ Cardinality(Named(sent[1].headers, s_content_length)) = 1

\* The places in sent of the closing body event complete() sends
Terminal == {i \in 1..Len(sent) : sent[i].type = "http.response.body" /\ ~sent[i].more_body}

\* C20 as stated: is_complete is false until complete() is called and true ever
\* after, no body event with more_body true follows the closing event of
\* complete(), and get_protocol() constructs one protocol for the connection.
C20_CompleteIsFinal ==
    /\ proto.created => (is_complete(proto) <=> Terminal # {})
    /\ \A i \in Terminal : \A j \in 1..Len(sent) : j > i => ~sent[j].more_body
    /\ proto.made <= 1

=============================================================================
